---- MODULE Spec2Model ----
(***************************************************************************)
(* State-machine model of the MotherDuckVideoPlayer React component        *)
(* (frontend/src/MotherDuckVideoPlayer.js): the connect chain, the video   *)
(* picker, the play/pause timer, the range-input seek, the frame query     *)
(* and the canvas renderer, over a small video_frames table.               *)
(*                                                                         *)
(* A nullable JavaScript value (null / an object) is a set with at most    *)
(* one element: {} is null, {v} is the value v.                            *)
(***************************************************************************)
EXTENDS Integers, Sequences, FiniteSets, TLC

VARIABLES
    table,          \* rows of ducktube.main.video_frames (never written here)
    conn,           \* useState(null): TRUE once setConn(connection) ran
    isLoading,      \* useState(false)
    videoUrls,      \* useState([])
    selectedVideo,  \* useState('')
    metadata,       \* useState(null)
    canvasSize,     \* useState({width: 160, height: 90})
    totalFrames,    \* useState(0)
    currentFrame,   \* useState(0)
    isPlaying,      \* useState(false)
    frameInterval,  \* useRef(null): {} or {N}, N the totalFrames the timer callback closed over
    pixels,         \* useState([])
    canvas,         \* what the <canvas> shows: {} untouched, or {[cell -> colour]}
    pending,        \* the await on which connectToMotherDuck is suspended
    inflight,       \* frame queries awaiting their result
    event,          \* the handler that ran last
    logged,         \* what that handler wrote with console.error ("none" if nothing)
    timers,         \* the active setInterval timers, oldest first: the totalFrames each closed over
    mounted         \* FALSE once the component is unmounted

vars == <<table, conn, isLoading, videoUrls, selectedVideo, metadata, canvasSize,
          totalFrames, currentFrame, isPlaying, frameInterval, pixels, canvas,
          pending, inflight, event, logged, timers, mounted>>

----------------------------------------------------------------------------
(* Bounds of the model *)

\* queries of loadFrame that may be outstanding at once
MaxInflight == 2
\* largest value / r / g / b stored in the tables of InitMeta
MaxValue == 2

----------------------------------------------------------------------------
(* Program constants and null values *)

\* SQL NULL in a column of video_frames or of a query result
NULL == -1
\* selectedVideo before any selection
NoVideo == ""
DefaultWidth == 160
DefaultHeight == 90
DefaultFps == 25
ColourMax == 255

White == <<ColourMax, ColourMax, ColourMax>>
Black == <<0, 0, 0>>

The(s) == CHOOSE x \in s : TRUE

----------------------------------------------------------------------------
(* The store: table video_frames *)

Row(url, f, x, y, value, r, g, b) ==
    [video_url |-> url, frame_id |-> f, x |-> x, y |-> y,
     value |-> value, r |-> r, g |-> g, b |-> b]

\* Lexicographic order of the video_url strings used below.
UrlOrder == <<"a", "b", "c", "d">>

UrlRank(u) == CHOOSE i \in 1..Len(UrlOrder) : UrlOrder[i] = u

\* "a": binary 2x1, frames 0 and 2 have "on" pixels, frame 1 is fully off
\* (no record), so COUNT(DISTINCT frame_id) = 2.
VideoA == { Row("a", 0, 0, 0, 1, NULL, NULL, NULL),
            Row("a", 0, 1, 0, 1, NULL, NULL, NULL),
            Row("a", 2, 1, 0, 1, NULL, NULL, NULL) }

\* "b": grayscale 1x1, three dense frames.
VideoB == { Row("b", 0, 0, 0, 0, NULL, NULL, NULL),
            Row("b", 1, 0, 0, 2, NULL, NULL, NULL),
            Row("b", 2, 0, 0, 1, NULL, NULL, NULL) }

\* "c": colour 1x2, one dense frame.
VideoC == { Row("c", 0, 0, 0, NULL, 1, 0, 0),
            Row("c", 0, 0, 1, NULL, 0, 1, 0) }

\* "d": binary 2x1, two sparse frames with one "on" pixel each.
VideoD == { Row("d", 0, 1, 0, 1, NULL, NULL, NULL),
            Row("d", 1, 0, 0, 1, NULL, NULL, NULL) }

Tables == { {}, VideoA, VideoB, VideoC, VideoA \cup VideoB, VideoA \cup VideoC,
            VideoB \cup VideoC, VideoA \cup VideoB \cup VideoC, VideoB \cup VideoD }

----------------------------------------------------------------------------
(* SQL as the queries use it *)

SetMax(S) == CHOOSE m \in S : \A o \in S : o <= m

\* MAX(col): NULLs are ignored, NULL when no non-NULL value exists
SqlMax(S) == IF S \ {NULL} = {} THEN NULL ELSE SetMax(S \ {NULL})

\* MAX(col) + 1
SqlPlusOne(v) == IF v = NULL THEN NULL ELSE v + 1

\* WHEN a <= b: a comparison with NULL is not true
SqlLeq(a, b) == a # NULL /\ b # NULL /\ a <= b

\* SELECT DISTINCT video_url ... ORDER BY video_url
RECURSIVE SortUrls(_)
SortUrls(S) ==
    IF S = {} THEN <<>>
    ELSE LET m == CHOOSE u \in S : \A o \in S : UrlRank(u) <= UrlRank(o)
         IN  <<m>> \o SortUrls(S \ {m})

ListQuery == SortUrls({t.video_url : t \in table})

\* ModeOf with WHEN MAX(value) < 1 in place of <= 1
ModeOfStrictlyBelowOne(rows) ==
    IF SqlMax({t.r : t \in rows}) # NULL THEN "color"
    ELSE IF SqlMax({t.value : t \in rows}) # NULL /\ SqlMax({t.value : t \in rows}) < 1
         THEN "binary"
    ELSE "grayscale"

\* CASE WHEN MAX(r) IS NOT NULL ... WHEN MAX(value) <= 1 ... ELSE ... END
ModeOf(rows) ==
    IF SqlMax({t.r : t \in rows}) # NULL THEN "color"
    ELSE IF SqlLeq(SqlMax({t.value : t \in rows}), 1) THEN "binary"
    ELSE "grayscale"

\* the aggregate query of loadVideoMetadata
MetadataQuery(videoUrl) ==
    LET rows == {t \in table : t.video_url = videoUrl}
    IN  [width        |-> SqlPlusOne(SqlMax({t.x : t \in rows})),
         height       |-> SqlPlusOne(SqlMax({t.y : t \in rows})),
         total_frames |-> Cardinality({t.frame_id : t \in rows}),
         mode         |-> ModeOf(rows)]

\* ORDER BY y, x
RowBefore(p, q) == p.y < q.y \/ (p.y = q.y /\ p.x <= q.x)

RECURSIVE SortRows(_)
SortRows(S) ==
    IF S = {} THEN <<>>
    ELSE LET m == CHOOSE p \in S : \A q \in S : RowBefore(p, q)
         IN  <<m>> \o SortRows(S \ {m})

\* the query of loadFrame, result.data.toRows()
FrameQuery(videoUrl, frameId) ==
    SortRows({ [x |-> t.x, y |-> t.y, value |-> t.value, r |-> t.r, g |-> t.g, b |-> t.b] :
               t \in {u \in table : u.frame_id = frameId /\ u.video_url = videoUrl} })

----------------------------------------------------------------------------
(* renderFrame *)

Grid(size) == (0..(size.width - 1)) \X (0..(size.height - 1))

\* `rgb(r,g,b)` is a colour only when its components are numbers; assigning
\* anything else to ctx.fillStyle leaves fillStyle as it was.
Rgb(r, g, b, old) == IF r = NULL \/ g = NULL \/ b = NULL THEN old ELSE <<r, g, b>>

FillStyle(mode, pixel, old) ==
    IF mode = "binary" THEN (IF pixel.value = 1 THEN Black ELSE White)
    ELSE IF mode = "grayscale" THEN Rgb(pixel.value, pixel.value, pixel.value, old)
    ELSE IF mode = "color" THEN Rgb(pixel.r, pixel.g, pixel.b, old)
    ELSE old

\* pixels.forEach(...): fillRect of one cell, clipped to the canvas
RECURSIVE Paint(_, _, _, _, _)
Paint(cv, style, px, i, mode) ==
    IF i > Len(px) THEN cv
    ELSE LET s == FillStyle(mode, px[i], style)
             c == <<px[i].x, px[i].y>>
         IN  Paint(IF c \in DOMAIN cv THEN [cv EXCEPT ![c] = s] ELSE cv, s, px, i + 1, mode)

\* renderFrame(): the canvas after the call
RenderFrame(cv, px, meta, size) ==
    IF Len(px) = 0 \/ meta = {} THEN cv
    ELSE {Paint([c \in Grid(size) |-> White], White, px, 1, The(meta).mode)}

----------------------------------------------------------------------------
(* loadFrame and the effect that calls it *)

\* a new query is awaited; every older one is no longer the latest issued
Issue(q, videoUrl, frameId) ==
    {[r EXCEPT !.latest = FALSE] : r \in q}
        \cup {[video |-> videoUrl, frame |-> frameId, latest |-> TRUE]}

\* LoadFrame without its first line, if (!conn || !selectedVideo) return
LoadFrameUnguarded(q, c, sel, frameId) == Issue(q, sel, frameId)

LoadFrame(q, c, sel, frameId) ==
    IF ~c \/ sel = NoVideo THEN q ELSE Issue(q, sel, frameId)

\* LoadFrameEffect with currentFrame missing from the dependency list
LoadFrameEffectWithoutFrameDep(c, sel, frameId) ==
    IF c # conn \/ sel # selectedVideo
    THEN LoadFrame(inflight, c, sel, frameId)
    ELSE inflight

\* useEffect(() => loadFrame(currentFrame), [currentFrame, loadFrame]);
\* loadFrame is a new callback when conn or selectedVideo changed
LoadFrameEffect(c, sel, frameId) ==
    IF c # conn \/ sel # selectedVideo \/ frameId # currentFrame
    THEN LoadFrame(inflight, c, sel, frameId)
    ELSE inflight

\* the model's cap on outstanding queries
Room(c, sel, frameId) ==
    LoadFrameEffect(c, sel, frameId) # inflight => Cardinality(inflight) < MaxInflight

----------------------------------------------------------------------------
Init ==
    /\ table \in Tables
    /\ conn = FALSE
    /\ isLoading = FALSE
    /\ videoUrls = <<>>
    /\ selectedVideo = NoVideo
    /\ metadata = {}
    /\ canvasSize = [width |-> DefaultWidth, height |-> DefaultHeight]
    /\ totalFrames = 0
    /\ currentFrame = 0
    /\ isPlaying = FALSE
    /\ frameInterval = {}
    /\ pixels = <<>>
    /\ canvas = {}
    /\ pending = "none"
    /\ inflight = {}
    /\ event = "mount"
    /\ logged = "none"
    /\ timers = <<>>
    /\ mounted = TRUE

----------------------------------------------------------------------------
(* connectToMotherDuck -> loadAvailableVideos -> loadVideoMetadata *)

\* the form's onSubmit; the button is disabled while isLoading, the form is
\* rendered only while conn is null
ConnectToMotherDuck ==
    /\ mounted
    /\ ~conn /\ ~isLoading /\ pending = "none"
    /\ isLoading' = TRUE
    /\ pending' = "init"
    /\ event' = "connect"
    /\ logged' = "none"
    /\ UNCHANGED <<table, timers, mounted, conn, videoUrls, selectedVideo, metadata, canvasSize, totalFrames,
                   currentFrame, isPlaying, frameInterval, pixels, canvas, inflight>>

\* connection.isInitialized() resolved: setConn, then the list query is awaited
InitOk ==
    /\ mounted
    /\ pending = "init"
    /\ conn' = TRUE
    /\ pending' = "list"
    /\ inflight' = LoadFrameEffect(TRUE, selectedVideo, currentFrame)
    /\ event' = "initOk"
    /\ logged' = "none"
    /\ UNCHANGED <<table, timers, mounted, isLoading, videoUrls, selectedVideo, metadata, canvasSize, totalFrames,
                   currentFrame, isPlaying, frameInterval, pixels, canvas>>

\* InitFail without the finally block
InitFailKeepsLoading ==
    /\ mounted
    /\ pending = "init"
    /\ pending' = "none"
    /\ isLoading' = isLoading
    /\ event' = "initFail"
    /\ logged' = "connect"
    /\ UNCHANGED <<table, timers, mounted, conn, videoUrls, selectedVideo, metadata, canvasSize,
                   totalFrames, currentFrame, isPlaying, frameInterval, pixels, canvas, inflight>>

\* MDConnection.create or isInitialized threw: catch, finally
InitFail ==
    /\ mounted
    /\ pending = "init"
    /\ pending' = "none"
    /\ isLoading' = FALSE
    /\ event' = "initFail"
    /\ logged' = "connect"
    /\ UNCHANGED <<table, timers, mounted, conn, videoUrls, selectedVideo, metadata, canvasSize, totalFrames,
                   currentFrame, isPlaying, frameInterval, pixels, canvas, inflight>>

\* the list query resolved
ListOk ==
    /\ mounted
    /\ pending = "list"
    /\ LET urls == ListQuery
       IN  /\ videoUrls' = urls
           /\ IF Len(urls) > 0
              THEN /\ selectedVideo' = urls[1]
                   /\ pending' = "meta"
                   /\ isLoading' = isLoading
                   /\ inflight' = LoadFrameEffect(conn, urls[1], currentFrame)
              ELSE /\ selectedVideo' = selectedVideo
                   /\ pending' = "none"
                   /\ isLoading' = FALSE
                   /\ inflight' = inflight
    /\ event' = "listOk"
    /\ logged' = "none"
    /\ UNCHANGED <<table, timers, mounted, conn, metadata, canvasSize, totalFrames, currentFrame, isPlaying,
                   frameInterval, pixels, canvas>>

\* the list query rejected: catch of loadAvailableVideos, finally of connectToMotherDuck
ListFail ==
    /\ mounted
    /\ pending = "list"
    /\ pending' = "none"
    /\ isLoading' = FALSE
    /\ event' = "listFail"
    /\ logged' = "list"
    /\ UNCHANGED <<table, timers, mounted, conn, videoUrls, selectedVideo, metadata, canvasSize, totalFrames,
                   currentFrame, isPlaying, frameInterval, pixels, canvas, inflight>>

\* the metadata query for urls[0] resolved
MetaOk ==
    /\ mounted
    /\ pending = "meta"
    /\ LET meta == MetadataQuery(videoUrls[1])
           size == [width |-> meta.width, height |-> meta.height]
           md   == {[target_width |-> meta.width, target_height |-> meta.height,
                     fps |-> DefaultFps, mode |-> meta.mode]}
       IN  /\ metadata' = md
           /\ canvasSize' = size
           /\ totalFrames' = meta.total_frames
           /\ currentFrame' = 0
           /\ inflight' = LoadFrameEffect(conn, selectedVideo, 0)
           \* a changed width/height attribute clears the canvas
           /\ canvas' = RenderFrame(IF size = canvasSize THEN canvas ELSE {}, pixels, md, size)
    /\ pending' = "none"
    /\ isLoading' = FALSE
    /\ event' = "metaOk"
    /\ logged' = "none"
    /\ UNCHANGED <<table, timers, mounted, conn, videoUrls, selectedVideo, isPlaying, frameInterval, pixels>>

\* the metadata query rejected
MetaFail ==
    /\ mounted
    /\ pending = "meta"
    /\ pending' = "none"
    /\ isLoading' = FALSE
    /\ event' = "metaFail"
    /\ logged' = "metadata"
    /\ UNCHANGED <<table, timers, mounted, conn, videoUrls, selectedVideo, metadata, canvasSize, totalFrames,
                   currentFrame, isPlaying, frameInterval, pixels, canvas, inflight>>

----------------------------------------------------------------------------
(* the video picker *)

\* loadVideoMetadata(connection, videoUrl) called as loadVideoMetadata(url):
\* connection is the url string and videoUrl is undefined.  An empty string
\* returns at once; any other string has no evaluateQuery method, the call
\* throws inside the try and the catch logs it.  No query reaches the store.
LoadVideoMetadataOfString(url) == IF url = NoVideo THEN "none" ELSE "metadata"

\* <select onChange>: fires for an option other than the selected one
HandleVideoSelect(url) ==
    /\ mounted
    /\ conn
    /\ url # selectedVideo
    /\ Room(conn, url, currentFrame)
    /\ selectedVideo' = url
    /\ logged' = LoadVideoMetadataOfString(url)
    /\ inflight' = LoadFrameEffect(conn, url, currentFrame)
    /\ event' = "select"
    /\ UNCHANGED <<table, timers, mounted, conn, isLoading, videoUrls, metadata, canvasSize, totalFrames,
                   currentFrame, isPlaying, frameInterval, pixels, canvas, pending>>

----------------------------------------------------------------------------
(* play, pause, the timer, the range input *)

\* NextIndex without the modulo
NextIndexNoWrap(prev, total) == prev + 1

\* NextIndex without the increment
NextIndexStuck(prev, total) == prev % total

\* (prev + 1) % totalFrames
NextIndex(prev, total) == (prev + 1) % total

\* if (frameInterval.current) clearInterval(frameInterval.current): the ref,
\* when set, holds the handle of the timer created last
ClearInterval(ts, ref) == IF ref = {} THEN ts ELSE SubSeq(ts, 1, Len(ts) - 1)

\* PlayVideo without the frameInterval.current test of its first line
PlayVideoIgnoresTimer ==
    /\ mounted
    /\ conn
    /\ IF totalFrames = 0
       THEN UNCHANGED <<isPlaying, frameInterval, timers>>
       ELSE /\ isPlaying' = TRUE
            /\ frameInterval' = {totalFrames}
            /\ timers' = Append(timers, totalFrames)
    /\ event' = "play"
    /\ logged' = "none"
    /\ UNCHANGED <<table, mounted, conn, isLoading, videoUrls, selectedVideo, metadata, canvasSize,
                   totalFrames, currentFrame, pixels, canvas, pending, inflight>>

\* PlayVideo without setIsPlaying(true)
PlayVideoWithoutFlag ==
    /\ mounted
    /\ conn
    /\ IF frameInterval # {} \/ totalFrames = 0
       THEN UNCHANGED <<frameInterval, timers>>
       ELSE /\ frameInterval' = {totalFrames}
            /\ timers' = Append(timers, totalFrames)
    /\ isPlaying' = isPlaying
    /\ event' = "play"
    /\ logged' = "none"
    /\ UNCHANGED <<table, mounted, conn, isLoading, videoUrls, selectedVideo, metadata, canvasSize,
                   totalFrames, currentFrame, pixels, canvas, pending, inflight>>

PlayVideo ==
    /\ mounted
    /\ conn
    /\ IF frameInterval # {} \/ totalFrames = 0
       THEN UNCHANGED <<isPlaying, frameInterval, timers>>
       ELSE /\ isPlaying' = TRUE
            /\ frameInterval' = {totalFrames}
            /\ timers' = Append(timers, totalFrames)
    /\ event' = "play"
    /\ logged' = "none"
    /\ UNCHANGED <<table, mounted, conn, isLoading, videoUrls, selectedVideo, metadata, canvasSize,
                   totalFrames, currentFrame, pixels, canvas, pending, inflight>>

\* PauseVideo without clearInterval
PauseVideoKeepsTimer ==
    /\ mounted
    /\ conn
    /\ frameInterval' = frameInterval
    /\ timers' = timers
    /\ isPlaying' = FALSE
    /\ event' = "pause"
    /\ logged' = "none"
    /\ UNCHANGED <<table, mounted, conn, isLoading, videoUrls, selectedVideo, metadata, canvasSize,
                   totalFrames, currentFrame, pixels, canvas, pending, inflight>>

PauseVideo ==
    /\ mounted
    /\ conn
    /\ timers' = ClearInterval(timers, frameInterval)
    /\ frameInterval' = {}
    /\ isPlaying' = FALSE
    /\ event' = "pause"
    /\ logged' = "none"
    /\ UNCHANGED <<table, mounted, conn, isLoading, videoUrls, selectedVideo, metadata, canvasSize,
                   totalFrames, currentFrame, pixels, canvas, pending, inflight>>

\* the setInterval callback
Tick ==
    /\ mounted
    /\ \E i \in DOMAIN timers :
          LET next == NextIndex(currentFrame, timers[i])
          IN  /\ Room(conn, selectedVideo, next)
              /\ currentFrame' = next
              /\ inflight' = LoadFrameEffect(conn, selectedVideo, next)
    /\ event' = "tick"
    /\ logged' = "none"
    /\ UNCHANGED <<table, timers, mounted, conn, isLoading, videoUrls, selectedVideo, metadata, canvasSize,
                   totalFrames, isPlaying, frameInterval, pixels, canvas, pending>>

\* e.target.value of the range input: the decimal digits of the position
RECURSIVE Digits(_)
Digits(n) == IF n < 10 THEN <<n>> ELSE Digits(n \div 10) \o <<n % 10>>

RECURSIVE ParseInt(_)
ParseInt(d) ==
    IF Len(d) = 0 THEN 0 ELSE 10 * ParseInt(SubSeq(d, 1, Len(d) - 1)) + d[Len(d)]

\* RangeMax with max={totalFrames}
RangeMaxIsTotal == totalFrames

\* max={Math.max(0, totalFrames - 1)}
RangeMax == IF totalFrames - 1 > 0 THEN totalFrames - 1 ELSE 0

\* <input type="range" onChange>: disabled while totalFrames is 0
Seek(k) ==
    /\ mounted
    /\ conn
    /\ totalFrames # 0
    /\ k \in 0..RangeMax
    /\ k # currentFrame
    /\ LET target == ParseInt(Digits(k))
       IN  /\ Room(conn, selectedVideo, target)
           /\ currentFrame' = target
           /\ inflight' = LoadFrameEffect(conn, selectedVideo, target)
    /\ event' = "seek"
    /\ logged' = "none"
    /\ UNCHANGED <<table, timers, mounted, conn, isLoading, videoUrls, selectedVideo, metadata, canvasSize,
                   totalFrames, isPlaying, frameInterval, pixels, canvas, pending>>

----------------------------------------------------------------------------
(* the result of a frame query *)

\* setPixels(result.data.toRows()), then the effect that calls renderFrame
FrameOk(req) ==
    /\ mounted
    /\ req \in inflight
    /\ pixels' = FrameQuery(req.video, req.frame)
    /\ canvas' = RenderFrame(canvas, pixels', metadata, canvasSize)
    /\ inflight' = inflight \ {req}
    /\ event' = "frameOk"
    /\ logged' = "none"
    /\ UNCHANGED <<table, timers, mounted, conn, isLoading, videoUrls, selectedVideo, metadata, canvasSize,
                   totalFrames, currentFrame, isPlaying, frameInterval, pending>>

\* the query rejected: the catch of loadFrame
FrameFail(req) ==
    /\ mounted
    /\ req \in inflight
    /\ inflight' = inflight \ {req}
    /\ event' = "frameFail"
    /\ logged' = "frame"
    /\ UNCHANGED <<table, timers, mounted, conn, isLoading, videoUrls, selectedVideo, metadata, canvasSize,
                   totalFrames, currentFrame, isPlaying, frameInterval, pixels, canvas, pending>>

----------------------------------------------------------------------------
(* teardown *)

\* the cleanup of the mount effect; afterwards no handler of the component runs
Unmount ==
    /\ mounted
    /\ mounted' = FALSE
    /\ timers' = ClearInterval(timers, frameInterval)
    /\ event' = "unmount"
    /\ logged' = "none"
    /\ UNCHANGED <<table, conn, isLoading, videoUrls, selectedVideo, metadata, canvasSize,
                   totalFrames, currentFrame, isPlaying, frameInterval, pixels, canvas,
                   pending, inflight>>

----------------------------------------------------------------------------
Range(s) == {s[i] : i \in DOMAIN s}

Next ==
    \/ ConnectToMotherDuck
    \/ InitOk
    \/ InitFail
    \/ ListOk
    \/ ListFail
    \/ MetaOk
    \/ MetaFail
    \/ \E url \in Range(videoUrls) : HandleVideoSelect(url)
    \/ PlayVideo
    \/ PauseVideo
    \/ Tick
    \/ \E k \in 0..RangeMax : Seek(k)
    \/ \E req \in inflight : FrameOk(req)
    \/ \E req \in inflight : FrameFail(req)
    \/ Unmount

Spec == Init /\ [][Next]_vars

\* the behaviours in which no frame query is rejected
NextFetchesSucceed ==
    \/ ConnectToMotherDuck
    \/ InitOk
    \/ InitFail
    \/ ListOk
    \/ ListFail
    \/ MetaOk
    \/ MetaFail
    \/ \E url \in Range(videoUrls) : HandleVideoSelect(url)
    \/ PlayVideo
    \/ PauseVideo
    \/ Tick
    \/ \E k \in 0..RangeMax : Seek(k)
    \/ \E req \in inflight : FrameOk(req)
    \/ Unmount

SpecFetchesSucceed == Init /\ [][NextFetchesSucceed]_vars

----------------------------------------------------------------------------
(* The metadata query over arbitrary small row sets of one video *)

\* (frame_id, x, y) of the rows a table of InitMeta may hold
Positions == {<<0, 0, 0>>, <<0, 1, 0>>, <<1, 0, 0>>, <<1, 1, 0>>}

\* a record carries either value or (r, g, b), never both
Payloads ==
    {[value |-> v, r |-> NULL, g |-> NULL, b |-> NULL] : v \in 0..MaxValue}
        \cup {[value |-> NULL, r |-> c, g |-> c, b |-> c] : c \in 0..MaxValue}

RowsOf(f) ==
    { Row("a", p[1], p[2], p[3], f[p].value, f[p].r, f[p].g, f[p].b) : p \in DOMAIN f }

MetaTables == UNION { { RowsOf(f) : f \in [D -> Payloads] } : D \in (SUBSET Positions) \ {{}} }

InitMeta ==
    /\ table \in MetaTables
    /\ conn = FALSE
    /\ isLoading = FALSE
    /\ videoUrls = <<>>
    /\ selectedVideo = NoVideo
    /\ metadata = {}
    /\ canvasSize = [width |-> DefaultWidth, height |-> DefaultHeight]
    /\ totalFrames = 0
    /\ currentFrame = 0
    /\ isPlaying = FALSE
    /\ frameInterval = {}
    /\ pixels = <<>>
    /\ canvas = {}
    /\ pending = "none"
    /\ inflight = {}
    /\ event = "mount"
    /\ logged = "none"
    /\ timers = <<>>
    /\ mounted = TRUE

NextMeta ==
    \/ ConnectToMotherDuck
    \/ InitOk
    \/ InitFail
    \/ ListOk
    \/ ListFail
    \/ MetaOk
    \/ MetaFail

SpecMeta == InitMeta /\ [][NextMeta]_vars

----------------------------------------------------------------------------
(* Claims *)

\* the video an outstanding metadata query is about, NoVideo if there is none
MetaQueryVideo == IF pending = "meta" THEN videoUrls[1] ELSE NoVideo

\* the controller holds the metadata of video v
HoldsMetadataOf(v) ==
    LET m == MetadataQuery(v)
    IN  /\ metadata # {}
        /\ The(metadata).target_width = m.width
        /\ The(metadata).target_height = m.height
        /\ The(metadata).mode = m.mode
        /\ totalFrames = m.total_frames

\* C1: last-request-wins -- when the result of a fetch arrives after a tick or
\* a seek issued a newer fetch for the same video, it is discarded: the held
\* rows and the canvas stay as they are.
C1_LastRequestWins ==
    [][\A req \in inflight :
          (FrameOk(req) /\ ~req.latest /\ req.video = selectedVideo)
              => UNCHANGED <<pixels, canvas>>]_vars

\* C2: every tick sets the frame index to (index + 1) mod total_frames, stays
\* inside [0, total_frames), and the tick after the last index yields 0.
C2_TickWraps ==
    [][event' = "tick" =>
          /\ totalFrames > 0
          /\ currentFrame' = (currentFrame + 1) % totalFrames
          /\ currentFrame' \in 0..(totalFrames - 1)
          /\ (currentFrame = totalFrames - 1 => currentFrame' = 0)]_vars

\* a tick took a three-frame video from its last index back to 0
C2_Witness ==
    event = "tick" /\ isPlaying /\ totalFrames = 3 /\ currentFrame = 0

\* C3: selecting a video issues a metadata query for the selected video, and
\* when a metadata query succeeds the controller holds the selected video's
\* width, height, total_frames and mode at frame index 0.
C3_SelectLoadsMetadata ==
    /\ event = "select" => MetaQueryVideo = selectedVideo
    /\ event = "metaOk" => HoldsMetadataOf(selectedVideo) /\ currentFrame = 0

\* C4: after a frame query failed, the tick timer is halted and the controller
\* is paused.
C4_FrameErrorPauses ==
    event = "frameFail" => ~isPlaying /\ frameInterval = {}

\* C5: once the result of a fetch with an empty row set is applied, every cell
\* of the canvas is background.
C5_EmptyFrameIsBackground ==
    (event = "frameOk" /\ Len(pixels) = 0 /\ metadata # {})
        => \A cv \in canvas : \A c \in DOMAIN cv : cv[c] = White

\* C6: pause stops the timer, leaves the frame index and the outstanding
\* fetches as they are; while no timer runs no tick happens and only play
\* starts one; a result that arrives while paused is applied.
C6_PauseKeepsFetch ==
    [][/\ event' = "pause" =>
            /\ frameInterval' = {} /\ ~isPlaying'
            /\ currentFrame' = currentFrame
            /\ inflight' = inflight
       /\ frameInterval = {} => event' # "tick"
       /\ (frameInterval = {} /\ frameInterval' # {}) => event' = "play"
       /\ (event' = "frameOk" /\ frameInterval = {}) =>
            \E req \in inflight :
                /\ inflight' = inflight \ {req}
                /\ pixels' = FrameQuery(req.video, req.frame)]_vars

\* pause ran while a fetch for the current, advanced frame is outstanding
C6_Witness ==
    /\ event = "pause" /\ ~isPlaying /\ frameInterval = {}
    /\ currentFrame # 0
    /\ [video |-> selectedVideo, frame |-> currentFrame, latest |-> TRUE] \in inflight

\* C7: a seek to k sets the frame index to k, issues a fresh fetch for k of
\* the selected video, and leaves playing/paused and the timer as they were.
C7_SeekFetchesAndKeepsMode ==
    [][\A k \in 0..RangeMax :
          Seek(k) =>
            /\ currentFrame' = k
            /\ inflight' = Issue(inflight, selectedVideo, k)
            /\ [video |-> selectedVideo, frame |-> k, latest |-> TRUE] \notin inflight
            /\ isPlaying' = isPlaying
            /\ frameInterval' = frameInterval]_vars

\* a seek made while playing: still playing, the fetch for the target is out
C7_Witness ==
    /\ event = "seek" /\ isPlaying /\ frameInterval # {}
    /\ currentFrame = 2
    /\ [video |-> selectedVideo, frame |-> 2, latest |-> TRUE] \in inflight

\* C8 as stated: every tick issues a fetch for the index it produces, for
\* every total_frames >= 1.
C8_EveryTickFetches ==
    [][event' = "tick" => inflight' = Issue(inflight, selectedVideo, currentFrame')]_vars

\* C8 as amended: a tick on a video of two or more frames changes the index
\* and issues a fetch for the new index; a tick on a one-frame video leaves
\* the index as it is and issues no fetch.
C8_TickFetchesWhenIndexChanges ==
    [][event' = "tick" =>
          IF totalFrames >= 2
          THEN /\ currentFrame' # currentFrame
               /\ inflight' = Issue(inflight, selectedVideo, currentFrame')
          ELSE /\ currentFrame' = currentFrame
               /\ inflight' = inflight]_vars

\* a tick on a video of several frames, its fetch outstanding
C8_Witness ==
    /\ event = "tick" /\ totalFrames >= 2
    /\ [video |-> selectedVideo, frame |-> currentFrame, latest |-> TRUE] \in inflight

\* C9: after a failed metadata load the controller holds no loaded video: no
\* metadata, total_frames 0 (so play starts nothing), and the failure is logged.
C9_MetadataFailureIsIdle ==
    logged = "metadata" => metadata = {} /\ totalFrames = 0 /\ ~isPlaying

\* C10: the derived mode is color if any row of the video has r, otherwise
\* binary if every observed value is 0 or 1, otherwise grayscale.
C10_ModeDerivation ==
    metadata # {} =>
        LET rows == {t \in table : t.video_url = videoUrls[1]}
        IN  The(metadata).mode =
                IF \E t \in rows : t.r # NULL THEN "color"
                ELSE IF \A t \in rows : t.value # NULL => t.value \in {0, 1} THEN "binary"
                ELSE "grayscale"

\* metadata derived as binary from rows whose values are 0 and 1
C10_Witness ==
    /\ metadata # {} /\ The(metadata).mode = "binary"
    /\ {t.value : t \in table} = {0, 1}

\* the number of distinct frame_id values stored for video v
DistinctFrames(v) == Cardinality({t.frame_id : t \in {u \in table : u.video_url = v}})

\* the rows of px whose cell lies on a canvas of the given size
InRange(px, size) == SelectSeq(px, LAMBDA r : <<r.x, r.y>> \in Grid(size))

\* C11: whenever a video is selected and metadata is loaded, the held
\* total_frames is the number of distinct frame_id values of the selected video.
C11_TotalFramesOfSelected ==
    (selectedVideo # NoVideo /\ metadata # {}) => totalFrames = DistinctFrames(selectedVideo)

\* C12: a row set with rows outside the canvas, rendered over a frame already
\* shown, gives the frame that the same row set without those rows gives.
C12_OutOfRangeRowsSkipped ==
    [][(event' = "frameOk" /\ metadata # {} /\ canvas # {}) =>
          canvas' = RenderFrame(canvas, InRange(pixels', canvasSize), metadata, canvasSize)]_vars

\* C13: never more than one timer is active, and play invoked while a timer
\* runs or while total_frames is 0 starts no timer and changes no state.
C13_SingleTimer ==
    [][/\ Len(timers') <= 1
       /\ (event' = "play" /\ (frameInterval # {} \/ totalFrames = 0)) =>
            UNCHANGED <<timers, frameInterval, isPlaying, currentFrame, totalFrames, metadata,
                        canvasSize, selectedVideo, videoUrls, conn, isLoading, pixels, canvas,
                        inflight, pending>>]_vars

\* play was invoked while total_frames is 0: nothing started
C13_Witness ==
    event = "play" /\ conn /\ totalFrames = 0 /\ ~isPlaying /\ frameInterval = {} /\ timers = <<>>

\* C14: when no frame query is rejected, once playback is paused and no fetch
\* is outstanding, the held rows are those of the current frame of the
\* selected video.
C14_SettledRowsAreCurrent ==
    (mounted /\ ~isPlaying /\ inflight = {} /\ conn /\ selectedVideo # NoVideo)
        => pixels = FrameQuery(selectedVideo, currentFrame)

\* C15: with total_frames > 0 the frame index lies in [0, total_frames).
C15_IndexInRange ==
    totalFrames > 0 => (0 <= currentFrame /\ currentFrame < totalFrames)

\* the last index of a three-frame video, with another video selected
C15_Witness ==
    /\ totalFrames = 3 /\ currentFrame = 2
    /\ selectedVideo # NoVideo /\ selectedVideo # videoUrls[1]

\* C16: before teardown the playing flag is true exactly when the interval
\* handle is set, which is exactly when a timer is active.
C16_PlayingIffTimer ==
    mounted => /\ isPlaying <=> frameInterval # {}
               /\ isPlaying <=> Len(timers) > 0

\* playing, with the failure of a frame query just logged
C16_Witness ==
    mounted /\ isPlaying /\ frameInterval # {} /\ Len(timers) = 1 /\ logged = "frame"

\* C17: a frame query is issued only by a render that has a connection and a
\* selected video; a render without them issues nothing and keeps the pixels.
C17_NoQueryWithoutVideo ==
    [][/\ \A r \in inflight' : r.video # NoVideo
       /\ inflight' # {} => conn'
       /\ (~conn' \/ selectedVideo' = NoVideo) => (inflight' = inflight /\ pixels' = pixels)]_vars

\* the effect ran on the new connection with no video selected: nothing issued
C17_Witness ==
    event = "initOk" /\ conn /\ selectedVideo = NoVideo /\ inflight = {}

\* C18: when a connect attempt ends the loading flag is cleared; conn is set
\* only by a successful initialization; a failed one leaves conn null, the
\* video list empty and no metadata.
C18_ConnectEnds ==
    [][/\ (pending # "none" /\ pending' = "none") => ~isLoading'
       /\ (~conn /\ conn') => (pending = "init" /\ event' = "initOk")
       /\ event' = "initFail" =>
            (~conn' /\ ~isLoading' /\ videoUrls' = <<>> /\ metadata' = {} /\ totalFrames' = 0)]_vars

\* a failed initialization: disconnected, not loading
C18_Witness ==
    event = "initFail" /\ logged = "connect" /\ ~conn /\ ~isLoading /\ pending = "none"

====
